---- MODULE Spec2Model ----
(***************************************************************************)
(* Model of src/app.py: a Streamlit page that geocodes an address, fetches *)
(* nearby earthquakes from the USGS catalog, renders a report and, on      *)
(* request, asks a generative-language model for a summary.                *)
(*                                                                         *)
(* One action is one run of the script (Streamlit re-executes the whole    *)
(* file on every interaction).  st.session_state survives between runs;    *)
(* everything else is rebuilt.  The replies of the three external services *)
(* are the inputs of a run, drawn from small sets.                         *)
(*                                                                         *)
(* Numbers: coordinates and magnitudes are kept in tenths (37.4 is 374).   *)
(* A Python value that may be None is wrapped: None is <<>>, x is <<x>>.   *)
(***************************************************************************)
EXTENDS Integers, Sequences, FiniteSets, TLC

\* Largest number of matches in a geocoding reply.
MaxGeoResults == 2

\* Largest number of features in a catalog reply.
MaxFeatures == 2

\* Default of get_nearby_earthquakes' radius_km parameter.
radius_km == 100

VARIABLES
    API_KEY_CONFIGURED, \* module-level flag set once at startup
    session_state,      \* st.session_state: a function from the keys present to their values
    df_request,         \* the catalog request whose answer is session_state.df (None: none yet)
    page,               \* the elements the last run put on the page, in order
    calls,              \* the outbound calls of the last run, in order, with their replies
    action              \* what triggered the last run

vars == <<API_KEY_CONFIGURED, session_state, df_request, page, calls, action>>

----------------------------------------------------------------------------
\* Python values

None == <<>>

Some(x) == <<x>>

\* bool(v) of a float or None: None and 0.0 (and -0.0) are false.
Truthy(v) == v # None /\ v # Some(0)

\* st.session_state.k = v
Put(ss, k, v) == [x \in DOMAIN ss \cup {k} |-> IF x = k THEN v ELSE ss[x]]

Widget(w, arg) == [w |-> w, arg |-> arg]

SeqsUpTo(S, n) == UNION {[1..k -> S] : k \in 0..n}

\* float(s) on the numeric strings the geocoder sends, in tenths.
float(s) ==
    CASE s = "37.4" -> 374
      [] s = "-122.1" -> -1221
      [] s = "35.7" -> 357
      [] s = "139.7" -> 1397
      [] s = "0" -> 0
      [] s = "-78.5" -> -785
      [] s = "51.5" -> 515
      [] s = "-0.0" -> 0
      [] s = "48.9" -> 489
      [] s = "2.3" -> 23

\* dict.get(key): None when the key is missing.
dict_get(d, key) == IF key \in DOMAIN d THEN Some(d[key]) ELSE None

----------------------------------------------------------------------------
\* Replies of the external services

\* Subclasses of requests.exceptions.RequestException raised by requests.get
\* (no connection, timeout after 10 s) and raise_for_status (non-2xx).
RequestExceptions == {"ConnectionError", "Timeout", "HTTPError"}

EntryA == [lat |-> "37.4", lon |-> "-122.1", display_name |-> "Mountain View, CA"]

EntryB == [lat |-> "35.7", lon |-> "139.7"]

EntryZeroLat == [lat |-> "0", lon |-> "-78.5", display_name |-> "Equator, Ecuador"]

EntryZeroLon == [lat |-> "51.5", lon |-> "-0.0", display_name |-> "Greenwich, London"]

GeoEntries == {EntryA, EntryB, EntryZeroLat, EntryZeroLon}

\* A lower-ranked match, which follows the best one in the array.
FurtherMatch == [lat |-> "48.9", lon |-> "2.3", display_name |-> "Paris, France"]

\* The JSON arrays of a 2xx reply: no match, or a best match followed by
\* lower-ranked ones.
GeoArrays ==
    {<<>>} \cup {<<first>> \o rest : first \in GeoEntries,
                                   rest \in SeqsUpTo({FurtherMatch}, MaxGeoResults - 1)}

\* "malformed" is a 2xx reply whose JSON is not an array of objects with
\* lat and lon.
GeoReplies ==
    {[kind |-> "RequestException", e |-> e] : e \in RequestExceptions}
        \cup {[kind |-> "malformed"]}
        \cup {[kind |-> "ok", json |-> a] : a \in GeoArrays}

\* Catalog features.  A magnitude is a JSON number or null, as the catalog
\* documents; coordinates are [lon, lat, depth].
Feature1 ==
    [properties |-> [place |-> "10km N of Alum Rock, CA", mag |-> Some(45), time |-> 1500],
     geometry |-> [coordinates |-> <<-1218, 375, 80>>]]

Feature2 ==
    [properties |-> [place |-> "5km S of Gilroy, CA", mag |-> None, time |-> 2750],
     geometry |-> [coordinates |-> <<-1215, 369, 50>>]]

Feature3 ==
    [properties |-> [place |-> "2km E of Chiba, Japan", mag |-> Some(21), time |-> 999],
     geometry |-> [coordinates |-> <<1401, 356, 300>>]]

Features == {Feature1, Feature2, Feature3}

\* "malformed" is a 2xx reply whose JSON has no 'features' member.
SeismicReplies ==
    {[kind |-> "RequestException", e |-> e] : e \in RequestExceptions}
        \cup {[kind |-> "malformed"]}
        \cup {[kind |-> "ok", json |-> [features |-> fs]] : fs \in SeqsUpTo(Features, MaxFeatures)}

\* generate_content either answers or raises (the API error, or ValueError
\* from response.text on a blocked answer).
ModelReplies ==
    {[kind |-> "ok", text |-> "The site shows moderate seismic exposure."],
     [kind |-> "error", e |-> "ResourceExhausted"]}

NoReply == [kind |-> "none"]

----------------------------------------------------------------------------
\* Helper functions of app.py.  Each returns a record: exc is the exception
\* that leaves the function ("" when it returns), value what it returns,
\* ui the elements it puts on the page, calls the requests it sends.

geocode_address(response) ==
    LET call == [service |-> "geocoding", response |-> response]
    IN  IF response.kind = "RequestException"
        THEN [exc |-> "", value |-> <<None, None, None>>,
              ui |-> <<Widget("error", "Geocoding API failed: " \o response.e)>>,
              calls |-> <<call>>]
        ELSE IF response.kind = "malformed"
        THEN [exc |-> "KeyError", value |-> <<None, None, None>>, ui |-> <<>>,
              calls |-> <<call>>]
        ELSE IF response.json # <<>>
        THEN LET data == response.json[1]
             IN  [exc |-> "",
                  value |-> <<Some(float(data.lat)), Some(float(data.lon)),
                              dict_get(data, "display_name")>>,
                  ui |-> <<>>, calls |-> <<call>>]
        ELSE [exc |-> "", value |-> <<None, None, None>>, ui |-> <<>>, calls |-> <<call>>]

\* pd.to_datetime(t, unit='ms'): epoch milliseconds to a timestamp.
to_datetime(t) == [second |-> t \div 1000, millisecond |-> t % 1000]

\* Mutant: coordinates read as [lat, lon].
earthquake_swapped(feature) ==
    LET properties == feature.properties
        coords == feature.geometry.coordinates
    IN  [place |-> properties.place,
         magnitude |-> properties.mag,
         time |-> to_datetime(properties.time),
         lat |-> coords[1],
         lon |-> coords[2]]

earthquake(feature) ==
    LET properties == feature.properties
        coords == feature.geometry.coordinates
    IN  [place |-> properties.place,
         magnitude |-> properties.mag,
         time |-> to_datetime(properties.time),
         lat |-> coords[2],
         lon |-> coords[1]]

\* Mutant: a failed request is not caught.
get_nearby_earthquakes_uncaught(lat, lon, response) ==
    LET url == [latitude |-> lat, longitude |-> lon, maxradiuskm |-> radius_km,
                orderby |-> "time"]
        call == [service |-> "seismic", url |-> url, response |-> response]
    IN  IF response.kind = "RequestException"
        THEN [exc |-> response.e, value |-> <<>>, ui |-> <<>>, calls |-> <<call>>]
        ELSE IF response.kind = "malformed"
        THEN [exc |-> "KeyError", value |-> <<>>, ui |-> <<>>, calls |-> <<call>>]
        ELSE LET data == response.json.features
             IN  [exc |-> "",
                  value |-> [i \in 1..Len(data) |-> earthquake(data[i])],
                  ui |-> <<>>, calls |-> <<call>>]

\* Mutant: a failed request is sent once more before giving up.
get_nearby_earthquakes_retry(lat, lon, response) ==
    LET url == [latitude |-> lat, longitude |-> lon, maxradiuskm |-> radius_km,
                orderby |-> "time"]
        call == [service |-> "seismic", url |-> url, response |-> response]
    IN  IF response.kind = "RequestException"
        THEN [exc |-> "", value |-> <<>>,
              ui |-> <<Widget("error", "USGS Earthquake API failed: " \o response.e)>>,
              calls |-> <<call, call>>]
        ELSE IF response.kind = "malformed"
        THEN [exc |-> "KeyError", value |-> <<>>, ui |-> <<>>, calls |-> <<call>>]
        ELSE LET data == response.json.features
             IN  [exc |-> "",
                  value |-> [i \in 1..Len(data) |-> earthquake(data[i])],
                  ui |-> <<>>, calls |-> <<call>>]

get_nearby_earthquakes(lat, lon, response) ==
    LET url == [latitude |-> lat, longitude |-> lon, maxradiuskm |-> radius_km,
                orderby |-> "time"]
        call == [service |-> "seismic", url |-> url, response |-> response]
    IN  IF response.kind = "RequestException"
        THEN [exc |-> "", value |-> <<>>,
              ui |-> <<Widget("error", "USGS Earthquake API failed: " \o response.e)>>,
              calls |-> <<call>>]
        ELSE IF response.kind = "malformed"
        THEN [exc |-> "KeyError", value |-> <<>>, ui |-> <<>>, calls |-> <<call>>]
        ELSE LET data == response.json.features
             IN  [exc |-> "",
                  value |-> [i \in 1..Len(data) |-> earthquake(data[i])],
                  ui |-> <<>>, calls |-> <<call>>]

\* df['magnitude'].max(): the largest magnitude, missing ones skipped; NaN
\* (None here) when every magnitude is missing.
magnitude_max(df) ==
    LET present == {df[i].magnitude[1] : i \in {j \in DOMAIN df : df[j].magnitude # None}}
    IN  IF present = {} THEN None
        ELSE Some(CHOOSE m \in present : \A n \in present : n <= m)

\* f"{x:.2f}" of a float held in tenths; NaN prints as nan.
format_2f(x) ==
    IF x = None THEN "nan"
    ELSE ToString(x[1] \div 10) \o "." \o ToString(x[1] % 10) \o "0"

\* str() of a display name inside an f-string.
str(name) == IF name = None THEN "None" ELSE name[1]

StaticMessage ==
    "AI model is not configured. Please add your GOOGLE_API_KEY to the Streamlit secrets."

Prompt(address_name, df) ==
    IF df = <<>>
    THEN "Write a brief, one-paragraph site analysis summary for the location: "
            \o str(address_name)
            \o ". State that no recent seismic activity was found in the immediate vicinity, which is a positive sign for geological stability."
    ELSE "Write a brief, one-paragraph site analysis summary for the location: "
            \o str(address_name) \o ". "
            \o "The analysis found " \o ToString(Len(df)) \o " recent seismic events nearby. "
            \o "The largest magnitude was " \o format_2f(magnitude_max(df)) \o ". "
            \o "Briefly explain what this might mean for a site risk assessment in a professional but easy-to-understand tone."

\* Mutant: generate_content is called outside the try block.
generate_ai_summary_propagating(address_name, df, response) ==
    IF ~API_KEY_CONFIGURED
    THEN [exc |-> "", value |-> StaticMessage, calls |-> <<>>]
    ELSE LET call == [service |-> "generative", prompt |-> Prompt(address_name, df),
                      response |-> response]
         IN  IF response.kind = "ok"
             THEN [exc |-> "", value |-> response.text, calls |-> <<call>>]
             ELSE [exc |-> response.e, value |-> "", calls |-> <<call>>]

generate_ai_summary(address_name, df, response) ==
    IF ~API_KEY_CONFIGURED
    THEN [exc |-> "", value |-> StaticMessage, calls |-> <<>>]
    ELSE LET call == [service |-> "generative", prompt |-> Prompt(address_name, df),
                      response |-> response]
         IN  IF response.kind = "ok"
             THEN [exc |-> "", value |-> response.text, calls |-> <<call>>]
             ELSE [exc |-> "",
                   value |-> "An error occurred with the AI model: " \o response.e,
                   calls |-> <<call>>]

----------------------------------------------------------------------------
\* The script, top to bottom

\* Lines 83-88: title, text input and the first button.
Header == <<Widget("title", "Instant Site Analysis Report"), Widget("button", "Analyze Site")>>

\* Mutant: the handler goes on without testing what the resolver returned.
Resolved_unchecked(lat, lon) == TRUE

\* `if lat and lon:`
Resolved(lat, lon) == Truthy(lat) /\ Truthy(lon)

AnalyzedPoint(ss) == [lat |-> ss.lat, lon |-> ss.lon]

\* Lines 105-124, run when 'df' is in the session.
ReportSection(ss) ==
    <<Widget("subheader", "Seismic Activity Report")>> \o
    IF ss.df # <<>>
    THEN <<Widget("write", "Found " \o ToString(Len(ss.df)) \o " recent seismic events within 100km."),
           Widget("dataframe", ss.df),
           Widget("map", [i \in 1..Len(ss.df) |-> [lat |-> Some(ss.df[i].lat),
                                                   lon |-> Some(ss.df[i].lon)]]
                             \o <<AnalyzedPoint(ss)>>),
           Widget("download_button", "seismic_report.csv")>>
    ELSE <<Widget("info", "No recent seismic activity found in the vicinity."),
           Widget("map", <<AnalyzedPoint(ss)>>)>>

\* Mutant: the section offers the button without looking at the flag.
AISection_unguarded(ss, pressed, response) ==
    LET head == <<Widget("subheader", "AI-Powered Summary")>>
        button == <<Widget("button", "Generate AI Summary")>>
    IN  IF pressed
        THEN LET r == generate_ai_summary(ss.full_address, ss.df, response)
             IN  IF r.exc # ""
                 THEN [exc |-> r.exc, session |-> ss, calls |-> r.calls, ui |-> head \o button]
                 ELSE [exc |-> "", session |-> Put(ss, "summary", r.value),
                       calls |-> r.calls, ui |-> head \o button]
        ELSE [exc |-> "", session |-> ss, calls |-> <<>>, ui |-> head \o button]

\* Lines 126-132.  pressed: this run was triggered by "Generate AI Summary".
AISection(ss, pressed, response) ==
    LET head == <<Widget("subheader", "AI-Powered Summary")>>
        button == <<Widget("button", "Generate AI Summary")>>
    IN  IF ~API_KEY_CONFIGURED
        THEN [exc |-> "", session |-> ss, calls |-> <<>>,
              ui |-> head \o <<Widget("warning", "AI features are disabled. Please configure your Google API Key in secrets.toml.")>>]
        ELSE IF pressed
        THEN LET r == generate_ai_summary(ss.full_address, ss.df, response)
             IN  IF r.exc # ""
                 THEN [exc |-> r.exc, session |-> ss, calls |-> r.calls, ui |-> head \o button]
                 ELSE [exc |-> "", session |-> Put(ss, "summary", r.value),
                       calls |-> r.calls, ui |-> head \o button]
        ELSE [exc |-> "", session |-> ss, calls |-> <<>>, ui |-> head \o button]

\* Lines 134-135.
SummarySection(ss) ==
    IF "summary" \in DOMAIN ss THEN <<Widget("markdown", ss.summary)>> ELSE <<>>

\* Lines 104-135: everything below the "Analyze Site" handler.  An uncaught
\* exception ends the run; Streamlit shows it in place of the rest.
Below(ss, pressed, response) ==
    IF "df" \in DOMAIN ss
    THEN LET ai == AISection(ss, pressed, response)
         IN  IF ai.exc # ""
             THEN [session |-> ai.session, calls |-> ai.calls,
                   ui |-> ReportSection(ss) \o ai.ui \o <<Widget("exception", ai.exc)>>]
             ELSE [session |-> ai.session, calls |-> ai.calls,
                   ui |-> ReportSection(ss) \o ai.ui \o SummarySection(ai.session)]
    ELSE [session |-> ss, calls |-> <<>>, ui |-> SummarySection(ss)]

\* The last run put element w on the page.
OnPage(w) == \E i \in DOMAIN page : page[i].w = w

\* The last run put element w on the page with this content.
Shows(w, arg) == \E i \in DOMAIN page : page[i].w = w /\ page[i].arg = arg

Finish(ss, req, ui, cs, a) ==
    /\ session_state' = ss
    /\ df_request' = req
    /\ page' = ui
    /\ calls' = cs
    /\ action' = a
    /\ UNCHANGED API_KEY_CONFIGURED

Init ==
    /\ API_KEY_CONFIGURED \in BOOLEAN
    /\ session_state = <<>>
    /\ df_request = None
    /\ page = Header
    /\ calls = <<>>
    /\ action = "start"

\* A run triggered by pressing "Analyze Site" (lines 88-102, then 104-135).
AnalyzeSite ==
    \E geo \in GeoReplies : \E g \in {geocode_address(geo)} :
        LET lat == g.value[1]
            lon == g.value[2]
            full_address == g.value[3]
        IN  IF g.exc # ""
            THEN Finish(session_state, df_request,
                        Header \o g.ui \o <<Widget("exception", g.exc)>>, g.calls, "AnalyzeSite")
            ELSE IF Resolved(lat, lon)
            THEN \E located \in {Put(Put(Put(session_state, "lat", lat), "lon", lon),
                                     "full_address", full_address)} :
                 \E seismic \in SeismicReplies :
                 \E q \in {get_nearby_earthquakes(lat, lon, seismic)} :
                    IF q.exc # ""
                    THEN Finish(located, df_request,
                                Header \o g.ui \o q.ui \o <<Widget("exception", q.exc)>>,
                                g.calls \o q.calls, "AnalyzeSite")
                    ELSE \E below \in {Below(Put(located, "df", q.value), FALSE, NoReply)} :
                            Finish(below.session, Some(<<lat, lon>>),
                                   Header \o g.ui \o q.ui
                                       \o <<Widget("success", str(full_address))>>
                                       \o below.ui,
                                   g.calls \o q.calls \o below.calls, "AnalyzeSite")
            ELSE \E below \in {Below(session_state, FALSE, NoReply)} :
                    Finish(below.session, df_request, Header \o g.ui \o below.ui,
                           g.calls \o below.calls, "AnalyzeSite")

\* A run triggered by pressing "Generate AI Summary", which the last run
\* must have put on the page.
GenerateAISummary ==
    /\ Shows("button", "Generate AI Summary")
    /\ \E response \in ModelReplies :
       \E below \in {Below(session_state, TRUE, response)} :
            Finish(below.session, df_request, Header \o below.ui, below.calls,
                   "GenerateAISummary")

\* A run triggered by anything else: editing the address, the download
\* button, a reload of the page within the session.
Rerun ==
    \E below \in {Below(session_state, FALSE, NoReply)} :
        Finish(below.session, df_request, Header \o below.ui, below.calls, "Rerun")

Next == AnalyzeSite \/ GenerateAISummary \/ Rerun

Spec == Init /\ [][Next]_vars

----------------------------------------------------------------------------
\* Properties

\* The geocoding call did not resolve the address: the request failed, or
\* the reply holds no match.
GeocodingFailed(response) ==
    \/ response.kind = "RequestException"
    \/ response.kind = "ok" /\ response.json = <<>>

\* The Location the resolver builds from a match.
LocationOf(entry) ==
    [lat |-> Some(float(entry.lat)), lon |-> Some(float(entry.lon)),
     full_address |-> dict_get(entry, "display_name")]

\* C1: an "Analyze Site" run whose geocoding call does not resolve the
\* address sends no catalog request and leaves the session (lat, lon,
\* full_address, df, summary) exactly as it was.
C1_FailedGeocodingLeavesSession ==
    [][(action' = "AnalyzeSite" /\ GeocodingFailed(calls'[1].response))
        => /\ session_state' = session_state
           /\ df_request' = df_request
           /\ \A i \in DOMAIN calls' : calls'[i].service # "seismic"]_vars

C1_Witness ==
    /\ action = "AnalyzeSite"
    /\ calls[1].response.kind = "ok"
    /\ calls[1].response.json = <<>>
    /\ Len(calls) = 1
    /\ "df" \in DOMAIN session_state
    /\ "summary" \in DOMAIN session_state

\* C2 (as claimed): every "Analyze Site" run whose geocoding call does not
\* resolve the address shows an error message in that run.
C2_FailedGeocodingShowsError ==
    (action = "AnalyzeSite" /\ GeocodingFailed(calls[1].response)) => OnPage("error")

\* C3 (as claimed): an "Analyze Site" run whose geocoding reply holds at least
\* one match ends with the session's Location equal to the first match, for
\* all coordinate values, and with a catalog request sent for it.
C3_FirstMatchStored ==
    (action = "AnalyzeSite" /\ calls[1].response.kind = "ok"
        /\ calls[1].response.json # <<>>)
    => LET loc == LocationOf(calls[1].response.json[1])
       IN  /\ {"lat", "lon", "full_address"} \subseteq DOMAIN session_state
           /\ session_state.lat = loc.lat
           /\ session_state.lon = loc.lon
           /\ session_state.full_address = loc.full_address
           /\ Len(calls) = 2

\* C4: when geocoding resolves and the catalog request fails, the run shows
\* an error message, stores the new Location with an empty report, and
\* renders the "No recent seismic activity" branch with a map of the
\* resolved Location alone.
C4_SeismicFailureDegrades ==
    (action = "AnalyzeSite" /\ Len(calls) = 2
        /\ calls[2].response.kind = "RequestException")
    => LET loc == LocationOf(calls[1].response.json[1])
       IN  /\ Shows("error", "USGS Earthquake API failed: " \o calls[2].response.e)
           /\ ~OnPage("exception")
           /\ {"lat", "lon", "full_address", "df"} \subseteq DOMAIN session_state
           /\ session_state.df = <<>>
           /\ session_state.lat = loc.lat
           /\ session_state.lon = loc.lon
           /\ session_state.full_address = loc.full_address
           /\ Shows("info", "No recent seismic activity found in the vicinity.")
           /\ Shows("map", <<[lat |-> loc.lat, lon |-> loc.lon]>>)
           /\ ~OnPage("dataframe")

C4_Witness ==
    /\ action = "AnalyzeSite"
    /\ Len(calls) = 2
    /\ calls[2].response.kind = "RequestException"
    /\ calls[1].response.json[1] = EntryB
    /\ Shows("info", "No recent seismic activity found in the vicinity.")

\* C5: with the credential absent, no run calls the generative-language
\* service, the "Generate AI Summary" button is never offered (the warning
\* is shown wherever the report is), and generate_ai_summary on the
\* session's data returns its static message without a call.
C5_NoCredentialNoGeneration ==
    ~API_KEY_CONFIGURED
    => /\ \A i \in DOMAIN calls : calls[i].service # "generative"
       /\ ~Shows("button", "Generate AI Summary")
       /\ OnPage("dataframe") \/ OnPage("info") => OnPage("warning")
       /\ "df" \in DOMAIN session_state
            => \A response \in ModelReplies :
                LET r == generate_ai_summary(session_state.full_address,
                                             session_state.df, response)
                IN  r.calls = <<>> /\ r.value = StaticMessage /\ r.exc = ""

C5_Witness ==
    /\ ~API_KEY_CONFIGURED
    /\ action = "Rerun"
    /\ OnPage("dataframe")
    /\ OnPage("warning")

\* C6: a "Generate AI Summary" run never ends in an exception: whatever the
\* display name, the report (empty, or with any numeric or missing
\* magnitudes) and the outcome of the call, the run stores a text as the
\* session's narrative (the model's answer, or a message naming the error)
\* and renders it.
C6_SummaryAlwaysText ==
    action = "GenerateAISummary"
    => /\ ~OnPage("exception")
       /\ Len(calls) = 1
       /\ "summary" \in DOMAIN session_state
       /\ session_state.summary =
            IF calls[1].response.kind = "ok"
            THEN calls[1].response.text
            ELSE "An error occurred with the AI model: " \o calls[1].response.e
       /\ Shows("markdown", session_state.summary)

C6_Witness ==
    /\ action = "GenerateAISummary"
    /\ calls[1].response.kind = "error"
    /\ session_state.df # <<>>
    /\ magnitude_max(session_state.df) = None
    /\ session_state.full_address = None

\* C7 (as claimed): after a successful "Analyze Site" run the page shows no
\* narrative.
C7_AnalysisResetsNarrative ==
    (action = "AnalyzeSite" /\ OnPage("success")) => ~OnPage("markdown")

\* C8: for a catalog reply of N features the report has N records in the
\* features' order; record i takes place, magnitude and time from feature
\* i's properties, lat from coordinates[1] and lon from coordinates[0]
\* (0-based) of its [lon, lat] geometry.
C8_ReportMatchesFeatures ==
    (action = "AnalyzeSite" /\ Len(calls) = 2 /\ calls[2].response.kind = "ok")
    => LET features == calls[2].response.json.features
           df == session_state.df
       IN  /\ Len(df) = Len(features)
           /\ \A i \in 1..Len(features) :
                /\ df[i].place = features[i].properties.place
                /\ df[i].magnitude = features[i].properties.mag
                /\ df[i].time = to_datetime(features[i].properties.time)
                /\ df[i].lat = features[i].geometry.coordinates[2]
                /\ df[i].lon = features[i].geometry.coordinates[1]

C8_Witness ==
    /\ action = "AnalyzeSite"
    /\ Len(calls) = 2
    /\ calls[2].response.kind = "ok"
    /\ calls[2].response.json.features = <<Feature3, Feature2>>
    /\ Len(session_state.df) = MaxFeatures

\* C9 (as claimed): a run makes at most one outbound call.
C9_AtMostOneCall == Len(calls) <= 1

\* C9 (amended): a run makes at most two outbound calls and never two to
\* the same service: "Analyze Site" makes one geocoding call, then at most
\* one catalog call; "Generate AI Summary" makes at most one generative
\* call; any other run makes none.
C9_AtMostOneCallPerService ==
    /\ Len(calls) <= 2
    /\ \A i, j \in DOMAIN calls : calls[i].service = calls[j].service => i = j
    /\ action = "AnalyzeSite"
        => /\ calls[1].service = "geocoding"
           /\ Len(calls) = 2 => calls[2].service = "seismic"
    /\ action = "GenerateAISummary"
        => \A i \in DOMAIN calls : calls[i].service = "generative"
    /\ action \in {"start", "Rerun"} => calls = <<>>

C9_Witness ==
    /\ action = "AnalyzeSite"
    /\ Len(calls) = 2
    /\ calls[2].response.kind = "RequestException"

\* C10 (as claimed): whenever the report is rendered, the session holds lat,
\* lon and full_address, and the report is the answer to the catalog
\* request made for exactly those coordinates.
C10_ReportBelongsToLocation ==
    Shows("subheader", "Seismic Activity Report")
    => /\ {"lat", "lon", "full_address", "df"} \subseteq DOMAIN session_state
       /\ df_request = Some(<<session_state.lat, session_state.lon>>)

====
